---- MODULE Spec2Model ----
(***************************************************************************)
(* Model of the player/marker server of src/main.py: the two process-wide  *)
(* dictionaries `players` and `shared_markers`, the five request handlers  *)
(* that read and write them, and the background task cleanup_inactive.     *)
(*                                                                         *)
(* Every handler awaits only while it parses the request; from its first   *)
(* access to a dictionary to its return it runs without suspension on the  *)
(* single event loop, so each handler is one atomic action.  One pass of   *)
(* the `while True` body of cleanup_inactive (between two sleeps) is one   *)
(* atomic action as well.                                                  *)
(*                                                                         *)
(* resp is the response of the last step; issued is the set of marker ids  *)
(* place_marker has returned so far (a record of the past, read by no      *)
(* handler).                                                               *)
(*                                                                         *)
(* Optional values (a JSON field or query parameter that may be missing)   *)
(* are modelled as sequences of length at most one: None is <<>> and a     *)
(* present value v is <<v>>.                                               *)
(***************************************************************************)
EXTENDS Integers, Sequences, FiniteSets, TLC

VARIABLES players, shared_markers, clock, resp, issued

vars == <<players, shared_markers, clock, resp, issued>>

----------------------------------------------------------------------------
(* Program constants *)

INACTIVITY_TIMEOUT == 300
MARKER_EXPIRY == 1800

----------------------------------------------------------------------------
(* Input domains.  The model is bounded by these finite sets of names,      *)
(* marker identifiers, field values and clock readings; it has no numeric  *)
(* bound.                                                                  *)

None == <<>>
Some(v) == <<v>>

Names == {"alice", "bob"}
Levels == {"L1", "L2"}
Coords == {<<1, 2, 3>>}
EmptyCoords == <<>>
Frequencies == {0, 5}
MarkerIds == {"m1", "m2"}

\* the values time.time() returns, in increasing order of calls: around the
\* expiry of markers placed at 100 with expires_in = 9 and expires_in = 10 ...
MarkerTimes == {100, 109, 111}

\* ... and around the inactivity timeout of players seen at 100 and at 101
PlayerTimes == {100, 101, 101 + INACTIVITY_TIMEOUT}

\* ... and, for the long run, past the inactivity timeout and past the
\* default expiry of what the first two readings stamp
LiveTimes == {100, 101 + INACTIVITY_TIMEOUT, 200 + MARKER_EXPIRY}

\* values of the optional "expires_in" field of a place request
ExpiresIn == {None, Some(9), Some(10)}

----------------------------------------------------------------------------
(* Python truthiness of the optional values used by the handlers *)

\* a str-valued optional: None and "" are falsy
TruthyStr(o) == o # None /\ o[1] # ""

\* a number-valued optional: None and 0 are falsy
TruthyNum(o) == o # None /\ o[1] # 0

\* a dict-valued optional: None and {} are falsy
TruthyDict(o) == o # None /\ o[1] # EmptyCoords

\* dict without one key
Without(d, k) == [x \in (DOMAIN d) \ {k} |-> d[x]]

\* dict with d[k] = v assigned
With(d, k, v) == [x \in (DOMAIN d) \cup {k} |-> IF x = k THEN v ELSE d[x]]

----------------------------------------------------------------------------
(* Requests *)

OptNames == {None, Some("")} \cup {Some(n) : n \in Names}
OptLevels == {None, Some("")} \cup {Some(l) : l \in Levels}
OptFrequencies == {None} \cup {Some(f) : f \in Frequencies}

\* JSON bodies of POST /join: the well-formed ones, and one well-formed body
\* with a single field left out or empty
ValidJoinRequests ==
    [username : {Some(n) : n \in Names}, level : {Some(l) : l \in Levels},
     coords : {Some(c) : c \in Coords}, frequency : {Some(f) : f \in Frequencies}]

BaseJoin ==
    [username |-> Some("alice"), level |-> Some("L1"),
     coords |-> Some(<<1, 2, 3>>), frequency |-> Some(5)]

JoinRequests ==
    ValidJoinRequests
    \cup {[BaseJoin EXCEPT !.username = u] : u \in {None, Some("")}}
    \cup {[BaseJoin EXCEPT !.level = l] : l \in {None, Some("")}}
    \cup {[BaseJoin EXCEPT !.coords = c] : c \in {None, Some(EmptyCoords)}}
    \cup {[BaseJoin EXCEPT !.frequency = None]}

\* JSON bodies of POST /markers/place; has_expires_in tells whether the key
\* "expires_in" is in the body at all (an explicit null is has_expires_in
\* with expires_in = None)
\* owner, channel and level of the markers placed: every owner on every
\* channel, and every level with every owner and on every channel
Profiles ==
    {<<"bob", 5, "L1">>, <<"bob", 0, "L2">>,
     <<"alice", 5, "L2">>, <<"alice", 0, "L1">>}

PlaceRequest(p, has, e) ==
    [username |-> Some(p[1]), frequency |-> Some(p[2]), level |-> Some(p[3]),
     coords |-> Some(<<1, 2, 3>>), marker_type |-> Some("boss"),
     has_expires_in |-> has, expires_in |-> e]

ValidPlaceRequests ==
    {PlaceRequest(p, TRUE, e) : p \in Profiles, e \in ExpiresIn}
    \cup {PlaceRequest(p, FALSE, None) : p \in Profiles}

BasePlace ==
    [username |-> Some("bob"), frequency |-> Some(5), level |-> Some("L1"),
     coords |-> Some(<<1, 2, 3>>), marker_type |-> Some("boss"),
     has_expires_in |-> TRUE, expires_in |-> Some(10)]

PlaceRequests ==
    ValidPlaceRequests
    \cup {[BasePlace EXCEPT !.username = u] : u \in {None, Some("")}}
    \cup {[BasePlace EXCEPT !.frequency = None]}
    \cup {[BasePlace EXCEPT !.level = l] : l \in {None, Some("")}}
    \cup {[BasePlace EXCEPT !.coords = c] : c \in {None, Some(EmptyCoords)}}
    \cup {[BasePlace EXCEPT !.marker_type = t] : t \in {None, Some("")}}

\* query parameters of GET /markers/get
GetRequests == [frequency : OptFrequencies, level : OptLevels]

\* path and query parameters of DELETE /markers/remove/{marker_id}
RemoveRequests == [marker_id : MarkerIds, username : OptNames]

\* query parameters of DELETE /markers/clear
ClearRequests == [username : OptNames, frequency : OptFrequencies]

----------------------------------------------------------------------------
(* State *)

Min(S) == CHOOSE t \in S : \A u \in S : t <= u

Init ==
    /\ players = << >>
    /\ shared_markers = << >>
    /\ clock = Min(MarkerTimes \cup PlayerTimes)
    /\ resp = [op |-> "startup"]
    /\ issued = {}

\* time.time(): the clock moves forward between two calls
Advance(Times) ==
    /\ \E t \in Times : t > clock /\ clock' = t
    /\ resp' = [op |-> "time"]
    /\ UNCHANGED <<players, shared_markers, issued>>

----------------------------------------------------------------------------
(* POST /join *)

JoinMissing(req) ==
    ~(/\ TruthyStr(req.username)
      /\ TruthyStr(req.level)
      /\ TruthyDict(req.coords)
      /\ req.frequency # None)

\* identity instead of equality: a freshly parsed dict is never the stored one
SameAsStoredIdentity(old, req) ==
    /\ old.level = req.level[1]
    /\ FALSE
    /\ old.frequency = req.frequency[1]

\* the level alone is compared
SameAsStoredLevel(old, req) == old.level = req.level[1]

SameAsStored(old, req) ==
    /\ old.level = req.level[1]
    /\ old.coords = req.coords[1]
    /\ old.frequency = req.frequency[1]

\* only the level of an existing entry is replaced
PlayerRecordMerged(req, current_time) ==
    IF req.username[1] \in DOMAIN players
    THEN [players[req.username[1]] EXCEPT !.level = req.level[1],
                                          !.last_update = current_time]
    ELSE [level |-> req.level[1], coords |-> req.coords[1],
          frequency |-> req.frequency[1], last_update |-> current_time]

PlayerRecord(req, current_time) ==
    [level |-> req.level[1], coords |-> req.coords[1],
     frequency |-> req.frequency[1], last_update |-> current_time]

join(req) ==
    IF JoinMissing(req)
    THEN /\ resp' = [op |-> "join", req |-> req, status |-> "error"]
         /\ UNCHANGED <<players, shared_markers, clock, issued>>
    ELSE LET username == req.username[1]
             current_time == clock
         IN  /\ IF username \in DOMAIN players
                THEN IF SameAsStored(players[username], req)
                     THEN /\ players' = [players EXCEPT
                                           ![username].last_update = current_time]
                          /\ resp' = [op |-> "join", req |-> req,
                                      now |-> current_time, status |-> "no_change"]
                     ELSE /\ players' = With(players, username,
                                             PlayerRecord(req, current_time))
                          /\ resp' = [op |-> "join", req |-> req,
                                      now |-> current_time, status |-> "updated"]
                ELSE /\ players' = With(players, username,
                                        PlayerRecord(req, current_time))
                     /\ resp' = [op |-> "join", req |-> req,
                                 now |-> current_time, status |-> "new"]
             /\ UNCHANGED <<shared_markers, clock, issued>>

(* GET /players *)
get_players ==
    /\ resp' = [op |-> "players", players |-> players]
    /\ UNCHANGED <<players, shared_markers, clock, issued>>

----------------------------------------------------------------------------
(* POST /markers/place *)

PlaceMissing(req) ==
    ~(/\ TruthyStr(req.username)
      /\ req.frequency # None
      /\ TruthyStr(req.level)
      /\ TruthyDict(req.coords)
      /\ TruthyStr(req.marker_type))

\* data.get("expires_in", MARKER_EXPIRY)
GetExpiresIn(req) ==
    IF req.has_expires_in THEN req.expires_in ELSE Some(MARKER_EXPIRY)

\* the default expiry whatever the request says
ExpiresAtDefault(current_time, expires_in) == Some(current_time + MARKER_EXPIRY)

\* current_time + expires_in if expires_in else None
ExpiresAt(current_time, expires_in) ==
    IF TruthyNum(expires_in) THEN Some(current_time + expires_in[1]) ELSE None

MarkerRecord(req, current_time) ==
    [username |-> req.username[1], frequency |-> req.frequency[1],
     level |-> req.level[1], coords |-> req.coords[1],
     marker_type |-> req.marker_type[1], timestamp |-> current_time,
     expires_at |-> ExpiresAt(current_time, GetExpiresIn(req))]

\* str(uuid.uuid4()): some identifier; the handler does not look whether the
\* dictionary already holds it
NewIds == MarkerIds

place_marker(req) ==
    IF PlaceMissing(req)
    THEN /\ resp' = [op |-> "place", req |-> req, status |-> "error"]
         /\ UNCHANGED <<players, shared_markers, clock, issued>>
    ELSE \E marker_id \in NewIds :
            LET current_time == clock
            IN  /\ shared_markers' = With(shared_markers, marker_id,
                                          MarkerRecord(req, current_time))
                /\ resp' = [op |-> "place", req |-> req, now |-> current_time,
                            marker_id |-> marker_id, status |-> "success"]
                /\ issued' = issued \cup {marker_id}
                /\ UNCHANGED <<players, clock>>

----------------------------------------------------------------------------
(* GET /markers/get *)

\* the comparison the wrong way round
QueryExpiredReversed(marker, current_time) ==
    TruthyNum(marker.expires_at) /\ current_time < marker.expires_at[1]

\* >= instead of >
QueryExpiredAtExpiry(marker, current_time) ==
    TruthyNum(marker.expires_at) /\ current_time >= marker.expires_at[1]

\* line 167: marker["expires_at"] and current_time > marker["expires_at"]
QueryExpired(marker, current_time) ==
    TruthyNum(marker.expires_at) /\ current_time > marker.expires_at[1]

\* truthiness instead of `is not None`
FrequencyMismatchTruthy(marker, frequency) ==
    TruthyNum(frequency) /\ marker.frequency # frequency[1]

\* line 171
FrequencyMismatch(marker, frequency) ==
    frequency # None /\ marker.frequency # frequency[1]

\* line 175
LevelMismatch(marker, level) ==
    TruthyStr(level) /\ marker.level # level[1]

FilteredMarkers(frequency, level, current_time) ==
    LET keep == {id \in DOMAIN shared_markers :
                    /\ ~QueryExpired(shared_markers[id], current_time)
                    /\ ~FrequencyMismatch(shared_markers[id], frequency)
                    /\ ~LevelMismatch(shared_markers[id], level)}
    IN  [id \in keep |-> shared_markers[id]]

get_markers(req) ==
    LET current_time == clock
    IN  /\ resp' = [op |-> "get", req |-> req, now |-> current_time,
                    markers |-> FilteredMarkers(req.frequency, req.level,
                                                current_time)]
        /\ UNCHANGED <<players, shared_markers, clock, issued>>

----------------------------------------------------------------------------
(* DELETE /markers/remove/{marker_id} *)

\* == instead of !=
NotOwnerInverted(marker, username) ==
    TruthyStr(username) /\ marker.username = username[1]

\* line 194: username and marker["username"] != username
NotOwner(marker, username) ==
    TruthyStr(username) /\ marker.username # username[1]

remove_marker(req) ==
    IF req.marker_id \notin DOMAIN shared_markers
    THEN /\ resp' = [op |-> "remove", req |-> req, status |-> "not_found"]
         /\ UNCHANGED <<players, shared_markers, clock, issued>>
    ELSE IF NotOwner(shared_markers[req.marker_id], req.username)
         THEN /\ resp' = [op |-> "remove", req |-> req, status |-> "unauthorized"]
              /\ UNCHANGED <<players, shared_markers, clock, issued>>
         ELSE /\ shared_markers' = Without(shared_markers, req.marker_id)
              /\ resp' = [op |-> "remove", req |-> req, status |-> "success"]
              /\ UNCHANGED <<players, clock, issued>>

----------------------------------------------------------------------------
(* DELETE /markers/clear *)

\* or instead of and
ClearMissingOr(req) == ~TruthyStr(req.username) \/ req.frequency = None

\* line 208: not username and frequency is None
ClearMissing(req) == ~TruthyStr(req.username) /\ req.frequency = None

\* both filters must match
ClearMatchesBoth(marker, req) ==
    /\ TruthyStr(req.username) => marker.username = req.username[1]
    /\ req.frequency # None => marker.frequency = req.frequency[1]

\* lines 213-216
ClearMatches(marker, req) ==
    IF TruthyStr(req.username) /\ marker.username = req.username[1]
    THEN TRUE
    ELSE req.frequency # None /\ marker.frequency = req.frequency[1]

RemoveAll(d, ks) == [x \in (DOMAIN d) \ ks |-> d[x]]

clear_markers(req) ==
    IF ClearMissing(req)
    THEN /\ resp' = [op |-> "clear", req |-> req, status |-> "error"]
         /\ UNCHANGED <<players, shared_markers, clock, issued>>
    ELSE LET to_remove == {id \in DOMAIN shared_markers :
                              ClearMatches(shared_markers[id], req)}
         IN  /\ shared_markers' = RemoveAll(shared_markers, to_remove)
             /\ resp' = [op |-> "clear", req |-> req,
                         count |-> Cardinality(to_remove), status |-> "success"]
             /\ UNCHANGED <<players, clock, issued>>

----------------------------------------------------------------------------
(* cleanup_inactive: one pass of the loop body *)

\* >= instead of >
InactiveAtTimeout(data, now) == now - data.last_update >= INACTIVITY_TIMEOUT

\* line 233
Inactive(data, now) == now - data.last_update > INACTIVITY_TIMEOUT

\* the markers of owners that are not players are collected too
SweepExpiredOrOrphan(marker, now) ==
    \/ TruthyNum(marker.expires_at) /\ now > marker.expires_at[1]
    \/ marker.username \notin DOMAIN players

\* the comparison the wrong way round
SweepExpiredReversed(marker, now) ==
    TruthyNum(marker.expires_at) /\ now < marker.expires_at[1]

\* >= instead of >
SweepExpiredAtExpiry(marker, now) ==
    TruthyNum(marker.expires_at) /\ now >= marker.expires_at[1]

\* the time of placement instead of the time of expiry
SweepExpiredByTimestamp(marker, now) ==
    TruthyNum(marker.expires_at) /\ now > marker.timestamp

\* line 243: marker["expires_at"] and now > marker["expires_at"]
SweepExpired(marker, now) ==
    TruthyNum(marker.expires_at) /\ now > marker.expires_at[1]

cleanup_inactive ==
    LET now == clock
        to_remove_players == {u \in DOMAIN players : Inactive(players[u], now)}
        to_remove_markers == {id \in DOMAIN shared_markers :
                                 SweepExpired(shared_markers[id], now)}
    IN  /\ players' = RemoveAll(players, to_remove_players)
        /\ shared_markers' = RemoveAll(shared_markers, to_remove_markers)
        /\ resp' = [op |-> "cleanup", now |-> now,
                    removed_players |-> to_remove_players,
                    removed_markers |-> to_remove_markers]
        /\ UNCHANGED <<clock, issued>>

----------------------------------------------------------------------------
\* the handlers and the background task, with the requests and clock values
\* drawn from the given sets
NextWith(Times, Joins, Places, Gets) ==
    \/ Advance(Times)
    \/ \E req \in Joins : join(req)
    \/ get_players
    \/ \E req \in Places : place_marker(req)
    \/ \E req \in Gets : get_markers(req)
    \/ \E req \in RemoveRequests : remove_marker(req)
    \/ \E req \in ClearRequests : clear_markers(req)
    \/ cleanup_inactive

\* the marker registry in full: four kinds of markers under two identifiers,
\* every ttl; the join requests are refused, so the player registry is empty
Next ==
    NextWith(MarkerTimes, {[BaseJoin EXCEPT !.username = None]},
             ValidPlaceRequests, GetRequests)

Spec == Init /\ [][Next]_vars

\* the player registry in full: two names, every level and frequency, the
\* malformed join and place requests; the markers are those of one request
NextPlayers ==
    NextWith(PlayerTimes, JoinRequests,
             (PlaceRequests \ ValidPlaceRequests)
                 \cup {BasePlace},
             {[frequency |-> None, level |-> None]})

SpecPlayers == Init /\ [][NextPlayers]_vars

\* the long run: one player, markers with a ttl of 10 and with the default
\* ttl.  The loop of cleanup_inactive has no exit and sleeps 60 seconds
\* between two passes, so passes keep coming, and the clock keeps moving.
NextLive ==
    NextWith(LiveTimes, {BaseJoin},
             {BasePlace, [BasePlace EXCEPT !.has_expires_in = FALSE,
                                           !.expires_in = None]},
             {[frequency |-> None, level |-> None]})

SpecLive ==
    /\ Init
    /\ [][NextLive]_vars
    /\ WF_vars(cleanup_inactive)
    /\ WF_vars(Advance(LiveTimes))

----------------------------------------------------------------------------
(* Properties.  resp is the response of the step just taken, so a formula  *)
(* about resp' in an action property speaks of the handler that took the   *)
(* step, of the state it ran in (unprimed) and of the state it left.       *)

\* a join request the registry must accept: a non-empty name, and level,
\* position and channel present and non-empty
ValidUpsert(req) ==
    /\ req.username # None /\ req.username[1] # ""
    /\ req.level # None /\ req.level[1] # ""
    /\ req.coords # None /\ req.coords[1] # EmptyCoords
    /\ req.frequency # None

\* a place request the registry must accept
ValidPlace(req) ==
    /\ req.username # None /\ req.username[1] # ""
    /\ req.frequency # None
    /\ req.level # None /\ req.level[1] # ""
    /\ req.coords # None /\ req.coords[1] # EmptyCoords
    /\ req.marker_type # None /\ req.marker_type[1] # ""

\* C1 as stated: a query at time now returns no marker whose expires_at is
\* non-null and <= now, the boundary expires_at = now included.
C1_Original ==
    resp.op = "get" =>
        \A id \in DOMAIN resp.markers :
            ~(/\ resp.markers[id].expires_at # None
              /\ resp.markers[id].expires_at[1] <= resp.now)

\* C1, amended: a query at time now returns no marker whose expires_at is
\* non-null, non-zero and < now, whatever the filters and whether or not the
\* sweep has removed it; what it returns are markers of the registry.
C1_NoExpiredReturned ==
    resp.op = "get" =>
        \A id \in DOMAIN resp.markers :
            /\ id \in DOMAIN shared_markers
            /\ resp.markers[id] = shared_markers[id]
            /\ ~(/\ resp.markers[id].expires_at # None
                 /\ resp.markers[id].expires_at[1] # 0
                 /\ resp.markers[id].expires_at[1] < resp.now)

\* an unfiltered query has left out a marker that is still in the registry
C1_Witness ==
    /\ resp.op = "get"
    /\ resp.req.frequency = None /\ resp.req.level = None
    /\ \E id \in DOMAIN shared_markers :
          /\ id \notin DOMAIN resp.markers
          /\ shared_markers[id].expires_at # None
          /\ shared_markers[id].expires_at[1] < resp.now

\* C2: a sweep that sampled now removes every player with
\* now - last_update > INACTIVITY_TIMEOUT and keeps every other player as it
\* was; GET /players returns the registry.
C2_SweepEvictsStale ==
    [][/\ resp'.op = "cleanup" =>
            \A u \in DOMAIN players :
                IF resp'.now - players[u].last_update > INACTIVITY_TIMEOUT
                THEN u \notin DOMAIN players'
                ELSE u \in DOMAIN players' /\ players'[u] = players[u]
       /\ resp'.op = "cleanup" => DOMAIN players' \subseteq DOMAIN players
       /\ resp'.op = "players" => resp'.players = players]_vars

\* a sweep has removed a player and kept one seen exactly the timeout ago
C2_Witness ==
    /\ resp.op = "cleanup"
    /\ resp.removed_players # {}
    /\ \E u \in DOMAIN players :
          resp.now - players[u].last_update = INACTIVITY_TIMEOUT

\* C3: a valid join of an existing name with the stored level, coords and
\* frequency answers no_change and changes nothing but that player's
\* last_update, which becomes the current time.
C3_UnchangedOnlyRefreshes ==
    [][(/\ resp'.op = "join"
        /\ ValidUpsert(resp'.req)
        /\ resp'.req.username[1] \in DOMAIN players
        /\ players[resp'.req.username[1]].level = resp'.req.level[1]
        /\ players[resp'.req.username[1]].coords = resp'.req.coords[1]
        /\ players[resp'.req.username[1]].frequency = resp'.req.frequency[1])
       => /\ resp'.status = "no_change"
          /\ players' = [players EXCEPT
                           ![resp'.req.username[1]].last_update = clock]
          /\ shared_markers' = shared_markers]_vars

\* a join was answered no_change after the clock had moved, next to another
\* player and a marker
C3_Witness ==
    /\ resp.op = "join"
    /\ resp.status = "no_change"
    /\ resp.now = 101
    /\ players[resp.req.username[1]].last_update = 101
    /\ \E u \in DOMAIN players : players[u].last_update = 100
    /\ shared_markers # << >>

\* C4: the status of a valid join is new when the name is not in the
\* registry, no_change when it is there with equal level, coords and
\* frequency, updated otherwise; afterwards the registry holds the name with
\* the supplied fields and last_update = now, and the other players as before.
C4_UpsertStatus ==
    [][(resp'.op = "join" /\ ValidUpsert(resp'.req)) =>
          LET req == resp'.req
              name == req.username[1]
              expected ==
                  IF name \notin DOMAIN players THEN "new"
                  ELSE IF /\ players[name].level = req.level[1]
                          /\ players[name].coords = req.coords[1]
                          /\ players[name].frequency = req.frequency[1]
                       THEN "no_change"
                       ELSE "updated"
          IN  /\ resp'.status = expected
              /\ DOMAIN players' = DOMAIN players \cup {name}
              /\ players'[name] =
                     [level |-> req.level[1], coords |-> req.coords[1],
                      frequency |-> req.frequency[1], last_update |-> clock]
              /\ \A u \in DOMAIN players \ {name} : players'[u] = players[u]]_vars

\* a join has replaced the fields of a player
C4_Witness ==
    /\ resp.op = "join"
    /\ resp.status = "updated"
    /\ players[resp.req.username[1]].level = resp.req.level[1]
    /\ players[resp.req.username[1]].frequency = resp.req.frequency[1]
    /\ players[resp.req.username[1]].last_update = resp.now

\* C5 as stated: removing an existing marker with a provided owner that is
\* not the stored owner answers unauthorized and changes neither registry,
\* for every provided owner.
C5_Original ==
    [][(/\ resp'.op = "remove"
        /\ resp'.req.marker_id \in DOMAIN shared_markers
        /\ resp'.req.username # None
        /\ resp'.req.username[1] # shared_markers[resp'.req.marker_id].username)
       => /\ resp'.status = "unauthorized"
          /\ shared_markers' = shared_markers
          /\ players' = players]_vars

\* the markers a clear request with the given filters has to remove: owner
\* given and equal, or channel given and equal
ClearSet(req) ==
    {id \in DOMAIN shared_markers :
        \/ req.username # None /\ shared_markers[id].username = req.username[1]
        \/ req.frequency # None /\ shared_markers[id].frequency = req.frequency[1]}

\* C6 as stated: with at least one filter supplied (non-null), clear removes
\* exactly the matching markers and reports their number.
C6_Original ==
    [][(/\ resp'.op = "clear"
        /\ (resp'.req.username # None \/ resp'.req.frequency # None))
       => /\ resp'.status = "success"
          /\ shared_markers' = RemoveAll(shared_markers, ClearSet(resp'.req))
          /\ resp'.count = Cardinality(ClearSet(resp'.req))]_vars

\* C6, amended: with a non-empty owner or a non-null channel supplied, clear
\* removes exactly the markers whose owner or channel equals a supplied
\* filter, leaves the others as they were and reports the number removed.
C6_ClearRemovesMatching ==
    [][(/\ resp'.op = "clear"
        /\ \/ (resp'.req.username # None /\ resp'.req.username[1] # "")
           \/ resp'.req.frequency # None)
       => /\ resp'.status = "success"
          /\ shared_markers' = RemoveAll(shared_markers, ClearSet(resp'.req))
          /\ resp'.count = Cardinality(ClearSet(resp'.req))
          /\ players' = players]_vars

\* clearing by owner alice alone has removed markers and left one of bob
C6_Witness ==
    /\ resp.op = "clear"
    /\ resp.status = "success"
    /\ resp.req.username = Some("alice") /\ resp.req.frequency = None
    /\ resp.count = 1
    /\ \E id \in DOMAIN shared_markers : shared_markers[id].username = "bob"

\* C7 as stated: a placed marker expires at now + ttl for a positive ttl and
\* at now + MARKER_EXPIRY when expires_in is null or absent.
C7_Original ==
    [][(resp'.op = "place" /\ resp'.status = "success") =>
          LET req == resp'.req
              e == shared_markers'[resp'.marker_id].expires_at
          IN  /\ (/\ req.has_expires_in
                  /\ req.expires_in # None
                  /\ req.expires_in[1] > 0) => e = Some(clock + req.expires_in[1])
              /\ (~req.has_expires_in \/ req.expires_in = None)
                     => e = Some(clock + MARKER_EXPIRY)]_vars

\* the marker of the scenario: channel 5, placed at 100 with expires_in = 10
ScenarioMarker(marker) ==
    /\ marker.frequency = 5
    /\ marker.timestamp = 100
    /\ marker.expires_at = Some(110)

\* C8: a marker placed on channel 5 at 100 with expires_in = 10 expires at
\* 110; a query of channel 5 at 109 returns it; a query of channel 5 at 111
\* does not, sweep or no sweep, and returns nothing when the registry holds
\* only such markers; a sweep at 111 removes it, and empties such a registry.
C8_Scenario ==
    [][/\ (/\ resp'.op = "place" /\ resp'.status = "success"
           /\ clock = 100
           /\ resp'.req.frequency = Some(5)
           /\ resp'.req.has_expires_in /\ resp'.req.expires_in = Some(10))
          => ScenarioMarker(shared_markers'[resp'.marker_id])
       /\ (/\ resp'.op = "get"
           /\ resp'.req = [frequency |-> Some(5), level |-> None])
          => /\ clock = 109 =>
                   \A id \in DOMAIN shared_markers :
                       ScenarioMarker(shared_markers[id]) =>
                           /\ id \in DOMAIN resp'.markers
                           /\ resp'.markers[id] = shared_markers[id]
             /\ clock = 111 =>
                   /\ \A id \in DOMAIN resp'.markers :
                          ~ScenarioMarker(resp'.markers[id])
                   /\ (\A id \in DOMAIN shared_markers :
                           ScenarioMarker(shared_markers[id]))
                      => resp'.markers = << >>
       /\ (resp'.op = "cleanup" /\ clock = 111)
          => /\ \A id \in DOMAIN shared_markers' :
                    ~ScenarioMarker(shared_markers'[id])
             /\ (\A id \in DOMAIN shared_markers :
                     ScenarioMarker(shared_markers[id]))
                => shared_markers' = << >>]_vars

\* the query of channel 5 at 111 has returned nothing while bob's marker,
\* placed at 100 to expire at 110, is still in the registry
C8_Witness ==
    /\ resp.op = "get"
    /\ resp.now = 111
    /\ resp.req = [frequency |-> Some(5), level |-> None]
    /\ resp.markers = << >>
    /\ \E id \in DOMAIN shared_markers :
          /\ ScenarioMarker(shared_markers[id])
          /\ shared_markers[id].username = "bob"
          /\ shared_markers[id].level = "L1"
          /\ shared_markers[id].marker_type = "boss"

\* what C9 says of a step, but for when clear must be refused
ValidationLeavesState ==
    /\ (resp'.op \in {"join", "place", "clear"} /\ resp'.status = "error")
       => players' = players /\ shared_markers' = shared_markers
    /\ (resp'.op = "join" /\ ~ValidUpsert(resp'.req))
       => resp'.status = "error"
    /\ (resp'.op = "place" /\ ~ValidPlace(resp'.req))
       => resp'.status = "error"

\* C9 as stated: a request refused for a missing or empty field changes
\* neither registry, a join or place with such a field is refused, and
\* clear is refused exactly when both filters are null.
C9_Original ==
    [][/\ ValidationLeavesState
       /\ resp'.op = "clear" =>
             (resp'.status = "error"
                 <=> (resp'.req.username = None /\ resp'.req.frequency = None))]_vars

\* C9, amended: ... and clear is refused exactly when the owner is null or
\* empty and the channel is null.
C9_ValidationNoMutation ==
    [][/\ ValidationLeavesState
       /\ resp'.op = "clear" =>
             (resp'.status = "error"
                 <=> (/\ (resp'.req.username = None \/ resp'.req.username[1] = "")
                      /\ resp'.req.frequency = None))]_vars

\* a clear with an empty owner and no channel was refused with a player and
\* a marker in the registries
C9_Witness ==
    /\ resp.op = "clear"
    /\ resp.status = "error"
    /\ resp.req.username = Some("")
    /\ players # << >>
    /\ shared_markers # << >>

\* C10: remove answers not_found exactly when the id is not in the registry,
\* and then changes nothing; for an id in the registry and an owner that is
\* null or the stored owner it answers success, deletes that marker and
\* leaves every other marker as it was.
C10_RemoveStatus ==
    [][resp'.op = "remove" =>
          LET id == resp'.req.marker_id
              owner == resp'.req.username
          IN  /\ resp'.status = "not_found" <=> id \notin DOMAIN shared_markers
              /\ resp'.status = "not_found" => shared_markers' = shared_markers
              /\ (/\ id \in DOMAIN shared_markers
                  /\ (owner = None \/ owner[1] = shared_markers[id].username))
                 => /\ resp'.status = "success"
                    /\ DOMAIN shared_markers' = DOMAIN shared_markers \ {id}
                    /\ \A other \in DOMAIN shared_markers' :
                           shared_markers'[other] = shared_markers[other]
              /\ players' = players]_vars

\* an owner has removed a marker and another marker is left
C10_Witness ==
    /\ resp.op = "remove"
    /\ resp.status = "success"
    /\ resp.req.username # None /\ resp.req.username[1] \in Names
    /\ resp.req.marker_id \notin DOMAIN shared_markers
    /\ shared_markers # << >>

\* C11 as stated: every successful place returns an id that no earlier place
\* has returned, whether or not that marker is still stored, and so never
\* stores over an existing marker.
C11_Original ==
    [][(resp'.op = "place" /\ resp'.status = "success")
       => /\ resp'.marker_id \notin issued
          /\ resp'.marker_id \notin DOMAIN shared_markers]_vars

\* C12 as stated: a sweep at now removes every marker whose expires_at is
\* non-null and <= now, and no marker whose expires_at is null or > now.
C12_Original ==
    [][resp'.op = "cleanup" =>
          \A id \in DOMAIN shared_markers :
              IF /\ shared_markers[id].expires_at # None
                 /\ shared_markers[id].expires_at[1] <= clock
              THEN id \notin DOMAIN shared_markers'
              ELSE /\ id \in DOMAIN shared_markers'
                   /\ shared_markers'[id] = shared_markers[id]]_vars

\* C12, amended: a sweep at now removes every marker whose expires_at is
\* non-null, non-zero and < now, and keeps every other marker as it was, the
\* marker with expires_at = now included.
C12_SweepEvictsExpired ==
    [][resp'.op = "cleanup" =>
          \A id \in DOMAIN shared_markers :
              IF /\ shared_markers[id].expires_at # None
                 /\ shared_markers[id].expires_at[1] # 0
                 /\ shared_markers[id].expires_at[1] < clock
              THEN id \notin DOMAIN shared_markers'
              ELSE /\ id \in DOMAIN shared_markers'
                   /\ shared_markers'[id] = shared_markers[id]]_vars

\* a sweep has removed a marker and kept one that expires later
C12_Witness ==
    /\ resp.op = "cleanup"
    /\ resp.removed_markers # {}
    /\ \E id \in DOMAIN shared_markers :
          /\ shared_markers[id].expires_at # None
          /\ shared_markers[id].expires_at[1] > resp.now

\* C13: whatever joins and places come before a sweep, the sweep decides on
\* the entries as they are when it runs, with the time it has just sampled:
\* a player it deletes has now - last_update > INACTIVITY_TIMEOUT for its
\* current last_update, a marker it deletes has a non-null expires_at < now,
\* and no entry is stamped later than the time the sweep samples.
C13_SweepUsesCurrentState ==
    [][resp'.op = "cleanup" =>
          /\ resp'.now = clock
          /\ \A u \in DOMAIN players :
                /\ players[u].last_update <= resp'.now
                /\ u \notin DOMAIN players'
                   => resp'.now - players[u].last_update > INACTIVITY_TIMEOUT
          /\ \A id \in DOMAIN shared_markers :
                /\ shared_markers[id].timestamp <= resp'.now
                /\ id \notin DOMAIN shared_markers'
                   => /\ shared_markers[id].expires_at # None
                      /\ shared_markers[id].expires_at[1] < resp'.now]_vars

\* a sweep has removed a player and a marker and has kept a player seen and
\* a marker placed at the very time of the sweep
C13_Witness ==
    /\ resp.op = "cleanup"
    /\ resp.removed_players # {}
    /\ resp.removed_markers # {}
    /\ \E u \in DOMAIN players : players[u].last_update = resp.now
    /\ \E id \in DOMAIN shared_markers : shared_markers[id].timestamp = resp.now

\* C14: joins and sweeps take effect one at a time, each on the registry the
\* one before it left.  In every step, a player entry that is new or changed
\* is, whole, the entry of the one join that took the step (its level,
\* coords and frequency, last_update = now); an entry that disappears was
\* deleted by a sweep that found it stale; and a join answers new exactly
\* when the name was not in the registry, so that a name is created once.
C14_UpsertAtomic ==
    [][/\ \A u \in DOMAIN players' :
             \/ u \in DOMAIN players /\ players'[u] = players[u]
             \/ /\ resp'.op = "join"
                /\ resp'.status \in {"new", "updated", "no_change"}
                /\ resp'.req.username = Some(u)
                /\ players'[u] =
                       [level |-> resp'.req.level[1],
                        coords |-> resp'.req.coords[1],
                        frequency |-> resp'.req.frequency[1],
                        last_update |-> clock]
       /\ \A u \in DOMAIN players \ DOMAIN players' :
             /\ resp'.op = "cleanup"
             /\ clock - players[u].last_update > INACTIVITY_TIMEOUT
       /\ (resp'.op = "join" /\ resp'.status # "error")
          => (resp'.status = "new"
                 <=> resp'.req.username[1] \notin DOMAIN players)]_vars

\* a name was created at the time of the last sweep, next to a player that
\* was last seen before it
C14_Witness ==
    /\ resp.op = "join"
    /\ resp.status = "new"
    /\ resp.now = 101 + INACTIVITY_TIMEOUT
    /\ \E u \in DOMAIN players : players[u].last_update = 101

\* C15: the markers an unfiltered query at now leaves out are the markers a
\* sweep at now removes, so the query returns the same markers before and
\* after the sweep.
C15_SameExpiryPredicate ==
    [][resp'.op = "cleanup" =>
          /\ resp'.removed_markers =
                 DOMAIN shared_markers \ DOMAIN FilteredMarkers(None, None, clock)
          /\ FilteredMarkers(None, None, clock)'
                 = FilteredMarkers(None, None, clock)]_vars

\* a sweep has removed a marker and left one that never expires
C15_Witness ==
    /\ resp.op = "cleanup"
    /\ resp.removed_markers # {}
    /\ \E id \in DOMAIN shared_markers : shared_markers[id].expires_at = None

\* C16 as stated: a query returns exactly the markers that are not expired
\* (expires_at null or > now) and equal every supplied (non-null) filter, a
\* zero channel and an empty level being supplied filters.
C16_Original ==
    resp.op = "get" =>
        /\ DOMAIN resp.markers =
               {id \in DOMAIN shared_markers :
                   /\ ~(/\ shared_markers[id].expires_at # None
                        /\ shared_markers[id].expires_at[1] <= resp.now)
                   /\ resp.req.frequency # None
                      => shared_markers[id].frequency = resp.req.frequency[1]
                   /\ resp.req.level # None
                      => shared_markers[id].level = resp.req.level[1]}
        /\ \A id \in DOMAIN resp.markers : resp.markers[id] = shared_markers[id]

\* C16, amended: a query returns exactly the markers whose expires_at is
\* null, zero or >= now and that equal every supplied filter, where a channel
\* is supplied when it is non-null (zero included) and a level is supplied
\* when it is non-null and non-empty.
C16_QueryFilters ==
    resp.op = "get" =>
        /\ DOMAIN resp.markers =
               {id \in DOMAIN shared_markers :
                   /\ ~(/\ shared_markers[id].expires_at # None
                        /\ shared_markers[id].expires_at[1] # 0
                        /\ shared_markers[id].expires_at[1] < resp.now)
                   /\ resp.req.frequency # None
                      => shared_markers[id].frequency = resp.req.frequency[1]
                   /\ (resp.req.level # None /\ resp.req.level[1] # "")
                      => shared_markers[id].level = resp.req.level[1]}
        /\ \A id \in DOMAIN resp.markers : resp.markers[id] = shared_markers[id]

\* a query of channel 0 and level L1 has returned a marker and left out one
\* that never expires
C16_Witness ==
    /\ resp.op = "get"
    /\ resp.req = [frequency |-> Some(0), level |-> Some("L1")]
    /\ resp.markers # << >>
    /\ \E id \in DOMAIN shared_markers \ DOMAIN resp.markers :
          shared_markers[id].expires_at = None

\* the last clock reading of the long run: what is due before it can be
\* seen to go
LastTime == CHOOSE t \in LiveTimes : \A u \in LiveTimes : u <= t

\* the expiry times a marker of the long run can have
LiveExpiries ==
    {t + 10 : t \in LiveTimes} \cup {t + MARKER_EXPIRY : t \in LiveTimes}

C18_Original ==
    [][\A id \in DOMAIN shared_markers :
          shared_markers[id].expires_at = None =>
              /\ (resp'.op = "get" /\ resp'.req.frequency = None
                                   /\ resp'.req.level = None)
                 => /\ id \in DOMAIN resp'.markers
                    /\ resp'.markers[id] = shared_markers[id]
              /\ (\/ id \notin DOMAIN shared_markers'
                  \/ shared_markers'[id] # shared_markers[id])
                 => \/ resp'.op = "remove" /\ resp'.req.marker_id = id
                    \/ resp'.op = "clear" /\ id \in ClearSet(resp'.req)]_vars

\* C19: a sweep never deletes a player whose last_update is at most
\* INACTIVITY_TIMEOUT before the current time, and every accepted join,
\* whatever its status, sets last_update to the current time; so a player
\* that joins again before the timeout has passed stays in the registry.
C19_ActiveNeverEvicted ==
    [][/\ \A u \in DOMAIN players :
             clock' - players[u].last_update <= INACTIVITY_TIMEOUT
                 => u \in DOMAIN players'
       /\ (resp'.op = "join" /\ resp'.status # "error")
          => /\ resp'.req.username[1] \in DOMAIN players'
             /\ players'[resp'.req.username[1]].last_update = clock]_vars

\* a sweep has removed nobody: both players are there, one of them seen
\* exactly the timeout ago
C19_Witness ==
    /\ resp.op = "cleanup"
    /\ resp.removed_players = {}
    /\ DOMAIN players = Names
    /\ \E u \in DOMAIN players :
          resp.now - players[u].last_update = INACTIVITY_TIMEOUT

\* C20: the two registries are independent.  A join changes no marker; a
\* sweep keeps every marker that has not expired, whoever owns it and
\* whichever players it deletes; place, get, remove and clear change no
\* player, and a sweep deletes no player but a stale one; a well-formed
\* place succeeds whether or not its owner is a player.
C20_RegistriesIndependent ==
    [][/\ resp'.op = "join" => shared_markers' = shared_markers
       /\ resp'.op = "cleanup" =>
             /\ \A id \in DOMAIN shared_markers :
                   (\/ shared_markers[id].expires_at = None
                    \/ shared_markers[id].expires_at[1] >= clock)
                   => /\ id \in DOMAIN shared_markers'
                      /\ shared_markers'[id] = shared_markers[id]
             /\ \A u \in DOMAIN players :
                   clock - players[u].last_update <= INACTIVITY_TIMEOUT
                   => u \in DOMAIN players' /\ players'[u] = players[u]
       /\ resp'.op \in {"place", "get", "remove", "clear", "players"}
          => players' = players
       /\ (resp'.op = "place" /\ ValidPlace(resp'.req))
          => /\ resp'.status = "success"
             /\ shared_markers'[resp'.marker_id].username
                    = resp'.req.username[1]]_vars

\* a sweep has deleted bob and left a marker of bob
C20_Witness ==
    /\ resp.op = "cleanup"
    /\ "bob" \in resp.removed_players
    /\ "bob" \notin DOMAIN players
    /\ \E id \in DOMAIN shared_markers : shared_markers[id].username = "bob"

====
